---- MODULE Spec2Model ----
(***************************************************************************)
(* Model of lambda/handler.py: the check-in scheduling workflow.           *)
(*                                                                         *)
(* schedule_check_in plans the check-in times of a reservation on its      *)
(* first call and pops the next one on every call; check_in performs the   *)
(* check-in, optionally e-mails the boarding pass and raises               *)
(* NotLastCheckIn while check-in times remain.  The state machine of AWS   *)
(* Step Functions calls the two handlers in turn, once per check-in time.  *)
(* receive_email starts an execution of it for a confirmation e-mail.      *)
(***************************************************************************)
EXTENDS Integers, Sequences, FiniteSets, TLC

(* Check-in times are 1..MaxTime: a larger number is a later time. *)
MaxTime == 3

Times == 1..MaxTime

(* The workflow runs in progress. *)
Runs == {"run1", "run2"}

(* The value of event.get('email') when the key is absent: falsy. *)
NoEmail == ""

Emails == {NoEmail, "friend@example.com"}

(* The value of check_in_times['next'] while the key is absent. *)
NoNext == 0

(* What a handler raises; NoException is a normal return. *)
NoException == "none"
NotLastCheckIn == "NotLastCheckIn"
LookupError == "LookupError"
CheckInError == "CheckInError"
IndexError == "IndexError"
KeyError == "KeyError"

VARIABLES
    event,        \* run -> the event dict threaded through the handlers
    pc,           \* run -> which handler the state machine calls next
    planned,      \* run -> the list the planner returned (<<>> before)
    popped,       \* run -> the pops so far: <<[index, time]>>
    invocations,  \* run -> one record per check_in call: its outcome
    last,         \* run -> detail of the latest check_in call
    advance,      \* run -> detail of the latest schedule_check_in call
    gateway,      \* run -> the calls made to lib.swa, in order
    inbound       \* run -> detail of the latest receive_email call

vars ==
    <<event, pc, planned, popped, invocations, last, advance, gateway,
      inbound>>

----------------------------------------------------------------------------
(* The event dict.  check_in_times is a nested dict; has_remaining and     *)
(* has_next say whether the keys 'remaining' and 'next' are in it.         *)

NoCheckInTimes ==
    [present |-> FALSE, has_remaining |-> FALSE, remaining |-> <<>>,
     has_next |-> FALSE, next |-> NoNext]

(* The input of a run: json.dumps(reservation) of receive_email. *)
StartInput(confirmation_number, email) ==
    [first_name |-> "Jane", last_name |-> "Doe",
     confirmation_number |-> confirmation_number,
     email |-> email,
     check_in_times |-> NoCheckInTimes]

ConfirmationNumber(r) == IF r = "run1" THEN "ABC123" ELSE "XYZ789"

----------------------------------------------------------------------------
(* A pop that returns the last element and leaves it in the list. *)
PopKeep(list) ==
    IF Len(list) = 0
    THEN [raised |-> IndexError, value |-> NoNext, index |-> 0, list |-> list]
    ELSE [raised |-> NoException, value |-> list[Len(list)],
          index |-> Len(list), list |-> list]

(* list.pop(0): a pop from the front of the list. *)
PopFirst(list) ==
    IF Len(list) = 0
    THEN [raised |-> IndexError, value |-> NoNext, index |-> 0, list |-> list]
    ELSE [raised |-> NoException, value |-> list[1],
          index |-> 1, list |-> Tail(list)]

(* list.pop(): removes and returns the last element of the list; raises    *)
(* IndexError on an empty list and leaves it unchanged.                    *)
Pop(list) ==
    IF Len(list) = 0
    THEN [raised |-> IndexError, value |-> NoNext, index |-> 0, list |-> list]
    ELSE [raised |-> NoException, value |-> list[Len(list)],
          index |-> Len(list), list |-> SubSeq(list, 1, Len(list) - 1)]

RECURSIVE SortDescending(_)
(* The reservation's check-in times as a descending list. *)
SortDescending(S) ==
    IF S = {} THEN <<>>
    ELSE LET m == CHOOSE x \in S : \A y \in S : y <= x
         IN  <<m>> \o SortDescending(S \ {m})

(* swa.get_check_in_times_from_reservation: a reservation is modelled by   *)
(* the set of the check-in times of its flights.                           *)
get_check_in_times_from_reservation(reservation) ==
    SortDescending(reservation)

(* A response of swa.get_reservation: the reservation, or a failure. *)
NoLookup == [ok |-> FALSE, reservation |-> {}]

Lookups == [ok : {TRUE}, reservation : SUBSET Times] \cup {NoLookup}

GatewayCall(op, ev) ==
    [op |-> op, first_name |-> ev.first_name, last_name |-> ev.last_name,
     confirmation_number |-> ev.confirmation_number]

(* The branch of schedule_check_in taken when the event has check-in      *)
(* times: event['check_in_times']['next'] = ...['remaining'].pop().        *)
schedule_next(ev) ==
    IF ~ev.check_in_times.has_remaining
    THEN [event |-> ev, raised |-> KeyError, pops |-> <<>>, calls |-> <<>>]
    ELSE LET p == Pop(ev.check_in_times.remaining)
         IN  IF p.raised # NoException
             THEN [event |-> ev, raised |-> p.raised,
                   pops |-> <<>>, calls |-> <<>>]
             ELSE [event |-> [ev EXCEPT
                                !.check_in_times.remaining = p.list,
                                !.check_in_times.has_next = TRUE,
                                !.check_in_times.next = p.value],
                   raised |-> NoException,
                   pops |-> <<[index |-> p.index, time |-> p.value]>>,
                   calls |-> <<>>]

(* A schedule_check_in whose first call returns the planned event without *)
(* calling itself: the caller sees the state between plan and pop.         *)
schedule_check_in_NoSelfCall(ev, lookup) ==
    IF ev.check_in_times.present
    THEN schedule_next(ev)
    ELSE LET ev1 == [ev EXCEPT !.check_in_times.present = TRUE]
             call == GatewayCall("get_reservation", ev)
         IN  IF ~lookup.ok
             THEN [event |-> ev1, raised |-> LookupError, pops |-> <<>>,
                   calls |-> <<call>>]
             ELSE [event |-> [ev1 EXCEPT
                                !.check_in_times.has_remaining = TRUE,
                                !.check_in_times.remaining =
                                    get_check_in_times_from_reservation(
                                        lookup.reservation)],
                   raised |-> NoException, pops |-> <<>>,
                   calls |-> <<call>>]

(* A schedule_check_in that fetches the reservation before it tests for   *)
(* 'check_in_times': every call looks the reservation up.                  *)
schedule_check_in_LookupFirst(ev, lookup) ==
    LET call == GatewayCall("get_reservation", ev)
    IN  IF ev.check_in_times.present
        THEN [schedule_next(ev) EXCEPT !.calls = <<call>>]
        ELSE LET ev1 == [ev EXCEPT !.check_in_times.present = TRUE]
             IN  IF ~lookup.ok
                 THEN [event |-> ev1, raised |-> LookupError,
                       pops |-> <<>>, calls |-> <<call>>]
                 ELSE LET r == schedule_next(
                                 [ev1 EXCEPT
                                    !.check_in_times.has_remaining = TRUE,
                                    !.check_in_times.remaining =
                                      get_check_in_times_from_reservation(
                                          lookup.reservation)])
                      IN  [r EXCEPT !.calls = <<call>>]

(* A schedule_check_in that catches the failure of the lookup and returns *)
(* the event.                                                              *)
schedule_check_in_LookupCaught(ev, lookup) ==
    LET call == GatewayCall("get_reservation", ev)
    IN  IF ev.check_in_times.present
        THEN schedule_next(ev)
        ELSE LET ev1 == [ev EXCEPT !.check_in_times.present = TRUE]
             IN  IF ~lookup.ok
                 THEN [event |-> ev1, raised |-> NoException,
                       pops |-> <<>>, calls |-> <<call>>]
                 ELSE LET r == schedule_next(
                                 [ev1 EXCEPT
                                    !.check_in_times.has_remaining = TRUE,
                                    !.check_in_times.remaining =
                                      get_check_in_times_from_reservation(
                                          lookup.reservation)])
                      IN  [r EXCEPT !.calls = <<call>>]

RECURSIVE schedule_check_in(_, _)
(* The handler: the event as it leaves it, what it raises, the pop made    *)
(* and the calls made to the gateway.                                      *)
schedule_check_in(ev, lookup) ==
    IF ev.check_in_times.present
    THEN schedule_next(ev)
    ELSE LET ev1 == [ev EXCEPT !.check_in_times.present = TRUE]
             call == GatewayCall("get_reservation", ev)
         IN  IF ~lookup.ok
             THEN [event |-> ev1, raised |-> LookupError, pops |-> <<>>,
                   calls |-> <<call>>]
             ELSE LET ev2 == [ev1 EXCEPT
                                !.check_in_times.has_remaining = TRUE,
                                !.check_in_times.remaining =
                                    get_check_in_times_from_reservation(
                                        lookup.reservation)]
                      rec == schedule_check_in(ev2, lookup)
                  IN  [rec EXCEPT !.calls = <<call>> \o rec.calls]

(* A check-in failure reported with the continuation signal. *)
CheckInRaisesContinuation(check_in_ok) ==
    IF check_in_ok THEN NoException ELSE NotLastCheckIn

(* What escapes the try block around swa.check_in: the except clause logs *)
(* the exception and re-raises it.                                         *)
CheckInRaises(check_in_ok) ==
    IF check_in_ok THEN NoException ELSE CheckInError

(* An e-mail failure that is not caught. *)
EmailRaisesUncaught(email_ok) ==
    IF email_ok THEN NoException ELSE "NotificationError"

(* What escapes the try block around swa.email_boarding_pass: the except  *)
(* clause logs the exception and goes on.                                  *)
EmailRaises(email_ok) == NoException

(* len(...) > 1: the last check-in time is left out. *)
MoreCheckInsOffByOne(ev) == Len(ev.check_in_times.remaining) > 1

(* len(...) >= 0: the continuation is raised every time. *)
MoreCheckInsAlways(ev) == Len(ev.check_in_times.remaining) >= 0

(* len(event['check_in_times']['remaining']) > 0 *)
MoreCheckIns(ev) == Len(ev.check_in_times.remaining) > 0

(* A check_in that pops 'email' from the event once the boarding pass is  *)
(* sent.                                                                   *)
EventAfterCheckInEmailPopped(ev) == [ev EXCEPT !.email = NoEmail]

(* A check_in that deletes check_in_times['next'] after the attempt. *)
EventAfterCheckInCleared(ev) ==
    [ev EXCEPT !.check_in_times.has_next = FALSE,
               !.check_in_times.next = NoNext]

(* The event as check_in leaves it: it reads the event, never writes it. *)
EventAfterCheckIn(ev) == ev

(* A check_in that calls swa.check_in a second time. *)
CheckInCallsTwice(ev) ==
    <<GatewayCall("check_in", ev), GatewayCall("check_in", ev)>>

(* The calls of swa.check_in that check_in makes: one, for the identity    *)
(* of the event.                                                           *)
CheckInCalls(ev) == <<GatewayCall("check_in", ev)>>

(* The handler check_in: the event as it leaves it, what it raises, the   *)
(* calls made to the gateway and how the e-mail went.                      *)
check_in(ev, check_in_ok, email_ok) ==
    LET email == ev.email
        call2 == GatewayCall("email_boarding_pass", ev)
        after == EventAfterCheckIn(ev)
    IN  IF CheckInRaises(check_in_ok) # NoException
        THEN [event |-> after, raised |-> CheckInRaises(check_in_ok),
              calls |-> CheckInCalls(ev), mail |-> "none"]
        ELSE LET calls == IF email # NoEmail
                          THEN CheckInCalls(ev) \o <<call2>>
                          ELSE CheckInCalls(ev)
                 mail == IF email = NoEmail THEN "none"
                         ELSE IF email_ok THEN "ok" ELSE "failed"
             IN  IF email # NoEmail /\ EmailRaises(email_ok) # NoException
                 THEN [event |-> after, raised |-> EmailRaises(email_ok),
                       calls |-> calls, mail |-> mail]
                 ELSE IF ~ev.check_in_times.present
                         \/ ~ev.check_in_times.has_remaining
                 THEN [event |-> after, raised |-> KeyError,
                       calls |-> calls, mail |-> mail]
                 ELSE IF MoreCheckIns(ev)
                 THEN [event |-> after, raised |-> NotLastCheckIn,
                       calls |-> calls, mail |-> mail]
                 ELSE [event |-> after, raised |-> NoException,
                       calls |-> calls, mail |-> mail]

----------------------------------------------------------------------------
(* ses_msg.source of the inbound messages. *)
Sources ==
    {"noreply@southwest.com", "friend@example.com",
     "friend@notsouthwest.com"}

(* The characters of a source address, cut in pieces. *)
Tokens(source) ==
    CASE source = "noreply@southwest.com" ->
            <<"noreply", "@", "southwest", ".", "com">>
      [] source = "friend@example.com" ->
            <<"friend", "@", "example", ".", "com">>
      [] source = "friend@notsouthwest.com" ->
            <<"friend", "@", "not", "southwest", ".", "com">>

(* str.endswith on the pieces. *)
EndsWith(tokens, suffix) ==
    /\ Len(suffix) <= Len(tokens)
    /\ SubSeq(tokens, Len(tokens) - Len(suffix) + 1, Len(tokens)) = suffix

(* ses_msg.source.endswith('southwest.com') *)
FromSouthwest(source) ==
    EndsWith(Tokens(source), <<"southwest", ".", "com">>)

(* A receive_email whose except clause re-raises the scraping failure. *)
receive_email_Reraise(source, found, confirmation_number) ==
    IF ~found
    THEN [raised |-> "ExtractionError", returned |-> "None",
          started |-> FALSE, input |-> StartInput("", NoEmail)]
    ELSE [raised |-> NoException, returned |-> "execution",
          started |-> TRUE,
          input |-> StartInput(confirmation_number,
                               IF ~FromSouthwest(source) THEN source
                               ELSE NoEmail)]

(* The handler receive_email for a message of the given source whose       *)
(* scraping finds the reservation of the given confirmation number, or     *)
(* fails: what it raises and returns, and the input of the execution it    *)
(* starts.                                                                 *)
receive_email(source, found, confirmation_number) ==
    IF ~found
    THEN [raised |-> NoException, returned |-> "None", started |-> FALSE,
          input |-> StartInput("", NoEmail)]
    ELSE [raised |-> NoException, returned |-> "execution",
          started |-> TRUE,
          input |-> StartInput(confirmation_number,
                               IF ~FromSouthwest(source) THEN source
                               ELSE NoEmail)]

----------------------------------------------------------------------------
(* The state machine of the orchestrator: schedule_check_in, then          *)
(* check_in; NotLastCheckIn from check_in goes back to schedule_check_in   *)
(* with the same state, every other error fails the run.                   *)
AfterSchedule(raised) ==
    IF raised = NoException THEN "check_in" ELSE "failed"

AfterCheckIn(raised) ==
    IF raised = NoException THEN "done"
    ELSE IF raised = NotLastCheckIn THEN "schedule_check_in"
    ELSE "failed"

NoLast ==
    [ran |-> FALSE, check_in |-> "none", mail |-> "none",
     raised |-> NoException, before |-> StartInput("", NoEmail),
     after |-> StartInput("", NoEmail)]

NoAdvance ==
    [ran |-> FALSE, first |-> FALSE, from |-> <<>>, raised |-> NoException,
     lookup |-> "none"]

NoInbound ==
    [handled |-> FALSE, source |-> "", found |-> FALSE,
     raised |-> NoException, returned |-> "None", started |-> FALSE,
     input |-> StartInput("", NoEmail)]

(* No run is started: every run waits for its confirmation e-mail. *)
Init ==
    /\ event = [r \in Runs |-> StartInput("", NoEmail)]
    /\ pc = [r \in Runs |-> "idle"]
    /\ inbound = [r \in Runs |-> NoInbound]
    /\ planned = [r \in Runs |-> <<>>]
    /\ popped = [r \in Runs |-> <<>>]
    /\ invocations = [r \in Runs |-> <<>>]
    /\ last = [r \in Runs |-> NoLast]
    /\ advance = [r \in Runs |-> NoAdvance]
    /\ gateway = [r \in Runs |-> <<>>]

(* One invocation of receive_email, for the confirmation e-mail of the     *)
(* reservation of run r: sfn.start_execution starts the run.               *)
ReceiveEmail(r) ==
    /\ pc[r] = "idle"
    /\ \E source \in Sources, found \in BOOLEAN :
          LET res == receive_email(source, found, ConfirmationNumber(r))
          IN  /\ inbound' = [inbound EXCEPT ![r] =
                    [handled |-> TRUE, source |-> source, found |-> found,
                     raised |-> res.raised, returned |-> res.returned,
                     started |-> res.started, input |-> res.input]]
              /\ event' = [event EXCEPT ![r] =
                    IF res.started THEN res.input ELSE @]
              /\ pc' = [pc EXCEPT ![r] =
                    IF res.started THEN "schedule_check_in" ELSE @]
    /\ UNCHANGED <<planned, popped, invocations, last, advance, gateway>>

(* A schedule_check_in that keeps check_in_times in a module-level dict:   *)
(* the runs that have check-in times share the list it pops from.          *)
ScheduleCheckInShared(r) ==
    /\ pc[r] = "schedule_check_in"
    /\ \E lookup \in (IF event[r].check_in_times.present THEN {NoLookup}
                       ELSE Lookups) :
          LET first == ~event[r].check_in_times.present
              res == schedule_check_in(event[r], lookup)
              plan == IF first /\ lookup.ok
                      THEN get_check_in_times_from_reservation(
                               lookup.reservation)
                      ELSE planned[r]
          IN  /\ event' = [q \in Runs |->
                    IF q = r THEN res.event
                    ELSE IF event[q].check_in_times.present
                            /\ res.event.check_in_times.has_remaining
                    THEN [event[q] EXCEPT
                            !.check_in_times = res.event.check_in_times]
                    ELSE event[q]]
              /\ pc' = [pc EXCEPT ![r] = AfterSchedule(res.raised)]
              /\ planned' = [planned EXCEPT ![r] = plan]
              /\ popped' = [popped EXCEPT ![r] = @ \o res.pops]
              /\ advance' = [advance EXCEPT ![r] =
                    [ran |-> TRUE, first |-> first,
                     from |-> IF first THEN plan
                              ELSE event[r].check_in_times.remaining,
                     raised |-> res.raised,
                     lookup |-> IF ~first THEN "none"
                                ELSE IF lookup.ok THEN "ok" ELSE "failed"]]
              /\ gateway' = [gateway EXCEPT ![r] = @ \o res.calls]
    /\ UNCHANGED <<invocations, last, inbound>>

(* One invocation of schedule_check_in for run r. *)
ScheduleCheckIn(r) ==
    /\ pc[r] = "schedule_check_in"
    /\ \E lookup \in (IF event[r].check_in_times.present THEN {NoLookup}
                       ELSE Lookups) :
          LET first == ~event[r].check_in_times.present
              res == schedule_check_in(event[r], lookup)
              plan == IF first /\ lookup.ok
                      THEN get_check_in_times_from_reservation(
                               lookup.reservation)
                      ELSE planned[r]
          IN  /\ event' = [event EXCEPT ![r] = res.event]
              /\ pc' = [pc EXCEPT ![r] = AfterSchedule(res.raised)]
              /\ planned' = [planned EXCEPT ![r] = plan]
              /\ popped' = [popped EXCEPT ![r] = @ \o res.pops]
              /\ advance' = [advance EXCEPT ![r] =
                    [ran |-> TRUE, first |-> first,
                     from |-> IF first THEN plan
                              ELSE event[r].check_in_times.remaining,
                     raised |-> res.raised,
                     lookup |-> IF ~first THEN "none"
                                ELSE IF lookup.ok THEN "ok" ELSE "failed"]]
              /\ gateway' = [gateway EXCEPT ![r] = @ \o res.calls]
    /\ UNCHANGED <<invocations, last, inbound>>

(* One invocation of check_in for run r. *)
CheckIn(r) ==
    /\ pc[r] = "check_in"
    /\ \E check_in_ok \in BOOLEAN, email_ok \in BOOLEAN :
          LET res == check_in(event[r], check_in_ok, email_ok)
          IN  /\ (res.mail = "none") => email_ok
              /\ event' = [event EXCEPT ![r] = res.event]
              /\ pc' = [pc EXCEPT ![r] = AfterCheckIn(res.raised)]
              /\ invocations' = [invocations EXCEPT ![r] =
                    Append(@, [check_in |-> IF check_in_ok THEN "ok"
                                            ELSE "failed",
                               raised |-> res.raised,
                               remaining |->
                                   event[r].check_in_times.remaining,
                               next |-> event[r].check_in_times.next])]
              /\ last' = [last EXCEPT ![r] =
                    [ran |-> TRUE,
                     check_in |-> IF check_in_ok THEN "ok" ELSE "failed",
                     mail |-> res.mail, raised |-> res.raised,
                     before |-> event[r], after |-> res.event]]
              /\ gateway' = [gateway EXCEPT ![r] = @ \o res.calls]
    /\ UNCHANGED <<planned, popped, advance, inbound>>

Next == \E r \in Runs : ReceiveEmail(r) \/ ScheduleCheckIn(r) \/ CheckIn(r)

Spec == Init /\ [][Next]_vars

(* The orchestrator calls the handler a started run waits for: the first   *)
(* call at the start of the execution, check_in after a return of          *)
(* schedule_check_in, and schedule_check_in again after NotLastCheckIn.    *)
FairSpec ==
    /\ Spec
    /\ \A r \in Runs :
          WF_vars(ScheduleCheckIn(r)) /\ WF_vars(CheckIn(r))

----------------------------------------------------------------------------
(* Helpers of the properties. *)

N(r) == Len(planned[r])

(* The lookup of run r has succeeded: the planner's list is in the event. *)
Planned(r) == event[r].check_in_times.has_remaining

AllCheckInsOk(r) ==
    \A k \in 1..Len(invocations[r]) : invocations[r][k].check_in = "ok"

(* Run r is between a check_in call and the next schedule_check_in call. *)
AfterAttempt(r) == last[r].ran /\ pc[r] # "check_in"

----------------------------------------------------------------------------
(* C1: a run whose planner result holds N check-in times and whose lookup  *)
(* and check-ins all succeed is N invocations of schedule_check_in and     *)
(* check_in: the invocations before the N-th end with NotLastCheckIn, the  *)
(* N-th is the first to end without it, and then the run is complete.      *)
C1_ExactlyNInvocations ==
    \A r \in Runs :
        (Planned(r) /\ AllCheckInsOk(r)) =>
            /\ Len(invocations[r]) <= N(r)
            /\ \A k \in 1..Len(invocations[r]) :
                  /\ (k < N(r)) => invocations[r][k].raised = NotLastCheckIn
                  /\ (k = N(r)) => invocations[r][k].raised = NoException
            /\ (pc[r] = "done") <=>
                  (N(r) >= 1 /\ Len(invocations[r]) = N(r))
            /\ (pc[r] = "done") => Len(popped[r]) = N(r)
            /\ (pc[r] = "schedule_check_in") =>
                  Len(popped[r]) = Len(invocations[r])
            /\ (pc[r] = "check_in") =>
                  Len(popped[r]) = Len(invocations[r]) + 1

C1_Witness ==
    \E r \in Runs :
        /\ pc[r] = "done" /\ AllCheckInsOk(r)
        /\ N(r) >= 2 /\ Len(invocations[r]) = N(r)
        /\ invocations[r][1].raised = NotLastCheckIn

(* C2: a failed check-in ends its invocation with a failure that is not    *)
(* the continuation signal, it is the last invocation of the run, and the  *)
(* run makes no further pop.                                               *)
C2_CheckInFailureAborts ==
    \A r \in Runs :
        \A k \in 1..Len(invocations[r]) :
            invocations[r][k].check_in = "failed" =>
                /\ invocations[r][k].raised \notin {NotLastCheckIn, NoException}
                /\ k = Len(invocations[r])
                /\ Len(popped[r]) = k
                /\ pc[r] = "failed"

C2_Witness ==
    \E r \in Runs :
        /\ Len(invocations[r]) >= 2
        /\ invocations[r][Len(invocations[r])].check_in = "failed"
        /\ Len(event[r].check_in_times.remaining) > 0

(* C3: when the delivery of the boarding pass fails, check_in still raises *)
(* NotLastCheckIn exactly when check-in times remain, returns normally     *)
(* otherwise, and leaves the event as it was.                              *)
C3_EmailFailureSwallowed ==
    \A r \in Runs :
        last[r].mail = "failed" =>
            /\ last[r].raised =
                  (IF Len(last[r].before.check_in_times.remaining) > 0
                   THEN NotLastCheckIn ELSE NoException)
            /\ last[r].after = last[r].before
            /\ pc[r] # "failed"

C3_Witness ==
    /\ \E r \in Runs :
          /\ last[r].mail = "failed" /\ last[r].raised = NotLastCheckIn
          /\ pc[r] = "schedule_check_in"
    /\ \E r \in Runs :
          /\ last[r].mail = "failed" /\ last[r].raised = NoException
          /\ pc[r] = "done"

(* C4: no position of the planned list, and no check-in time, is popped    *)
(* twice in a run.                                                         *)
C4_NoDuplicatePop ==
    \A r \in Runs :
        \A i, j \in 1..Len(popped[r]) :
            i # j => /\ popped[r][i].index # popped[r][j].index
                     /\ popped[r][i].time # popped[r][j].time

C4_Witness ==
    \E r \in Runs : Len(popped[r]) >= 3

(* C5: after a successful check-in, check_in raises NotLastCheckIn if and  *)
(* only if the list left by the pop is not empty, and it ends the run      *)
(* exactly when that list is empty.                                        *)
C5_ContinueIffPending ==
    \A r \in Runs :
        /\ \A k \in 1..Len(invocations[r]) :
              invocations[r][k].check_in = "ok" =>
                  /\ (invocations[r][k].raised = NotLastCheckIn)
                        <=> (Len(invocations[r][k].remaining) > 0)
                  /\ (invocations[r][k].raised = NoException)
                        <=> (Len(invocations[r][k].remaining) = 0)
        /\ (AfterAttempt(r) /\ last[r].check_in = "ok") =>
              /\ (pc[r] = "done")
                    <=> (Len(event[r].check_in_times.remaining) = 0)
              /\ (pc[r] = "schedule_check_in")
                    <=> (Len(event[r].check_in_times.remaining) > 0)

C5_Witness ==
    \E r \in Runs :
        /\ pc[r] = "done" /\ last[r].check_in = "ok"
        /\ Len(invocations[r]) >= 2
        /\ Len(invocations[r][1].remaining) > 0

(* C6: schedule_check_in never calls pop() on an empty list, neither on a  *)
(* continuing call nor on a first call whose planning yields no check-in   *)
(* time.                                                                   *)
C6_NeverPopsEmpty ==
    \A r \in Runs :
        advance[r].ran => advance[r].raised # IndexError

(* C7: every call of schedule_check_in that has a list to pop from leaves  *)
(* that list one element shorter, and the element removed is the new       *)
(* check_in_times['next'].                                                 *)
C7_PopsExactlyOne ==
    \A r \in Runs :
        (advance[r].ran /\ advance[r].raised \notin {LookupError, KeyError}) =>
            /\ Len(event[r].check_in_times.remaining)
                  = Len(advance[r].from) - 1
            /\ event[r].check_in_times.remaining
                  = SubSeq(advance[r].from, 1, Len(advance[r].from) - 1)
            /\ event[r].check_in_times.has_next
            /\ event[r].check_in_times.next
                  = advance[r].from[Len(advance[r].from)]

(* C8 as stated: the check-in times are popped in the order in which the   *)
(* planned list writes them, first listed element first.                   *)
C8_PoppedInListOrder ==
    \A r \in Runs :
        \A k \in 1..Len(popped[r]) : popped[r][k].time = planned[r][k]

(* C8 as amended: the check-in times are popped in the reverse of the      *)
(* order in which the planned list writes them, last listed element        *)
(* first: the k-th pop takes element N+1-k and leaves the first N-k        *)
(* elements, and the k-th check_in continues exactly when k < N.  For the  *)
(* list [T+5d, T+2d], invocation 1 pops T+2d and leaves [T+5d],            *)
(* invocation 2 pops T+5d and leaves [].                                   *)
C8_PoppedInReverseListOrder ==
    \A r \in Runs :
        /\ \A k \in 1..Len(popped[r]) :
              /\ k <= N(r)
              /\ popped[r][k].index = N(r) + 1 - k
              /\ popped[r][k].time = planned[r][N(r) + 1 - k]
        /\ \A k \in 1..Len(invocations[r]) :
              /\ invocations[r][k].next = popped[r][k].time
              /\ invocations[r][k].remaining = SubSeq(planned[r], 1, N(r) - k)
              /\ invocations[r][k].check_in = "ok" =>
                    invocations[r][k].raised =
                        (IF k < N(r) THEN NotLastCheckIn ELSE NoException)

(* The scenario: the planned list is <<3, 1>>; 1 is popped first. *)
C8_Witness ==
    \E r \in Runs :
        /\ planned[r] = <<3, 1>> /\ pc[r] = "done"
        /\ popped[r] = <<[index |-> 2, time |-> 1], [index |-> 1, time |-> 3]>>
        /\ invocations[r][1].remaining = <<3>>
        /\ invocations[r][1].raised = NotLastCheckIn
        /\ invocations[r][2].remaining = <<>>
        /\ invocations[r][2].raised = NoException

IsDescending(list) ==
    \A i, j \in 1..Len(list) : i < j => list[i] > list[j]

(* C9: the planned list being in descending time, the times popped over a  *)
(* run are strictly increasing, soonest first, and the list that remains   *)
(* is always the planned list less the elements popped, in its order.      *)
C9_PoppedSoonestFirst ==
    \A r \in Runs :
        IsDescending(planned[r]) =>
            /\ \A i, j \in 1..Len(popped[r]) :
                  i < j => popped[r][i].time < popped[r][j].time
            /\ \A i \in 1..Len(popped[r]) :
                  \A t \in Times :
                      (t < popped[r][i].time
                          /\ \E q \in 1..N(r) : planned[r][q] = t)
                      => \E j \in 1..(i - 1) : popped[r][j].time = t
            /\ Planned(r) =>
                  event[r].check_in_times.remaining
                      = SubSeq(planned[r], 1, N(r) - Len(popped[r]))

C9_Witness ==
    \E r \in Runs :
        /\ Len(planned[r]) >= 3 /\ Len(popped[r]) = Len(planned[r])
        /\ popped[r][1].time < popped[r][2].time

(* C10 as stated: after check_in has made an attempt, no                   *)
(* check_in_times['next'] is present in the event.                         *)
C10_CurrentCleared ==
    \A r \in Runs :
        AfterAttempt(r) => ~event[r].check_in_times.has_next

(* C10 as amended: check_in does not clear check_in_times['next']: after   *)
(* an attempt it still holds the check-in time of that attempt, until the  *)
(* pop of the next schedule_check_in replaces it by another one; no value  *)
(* of it is the subject of two attempts.                                   *)
C10_CurrentKeptNeverReattempted ==
    \A r \in Runs :
        /\ AfterAttempt(r) =>
              /\ event[r].check_in_times.has_next
              /\ event[r].check_in_times.next
                    = invocations[r][Len(invocations[r])].next
              /\ event[r] = last[r].before
        /\ \A i, j \in 1..Len(invocations[r]) :
              i # j => invocations[r][i].next # invocations[r][j].next

C10_Witness ==
    \E r \in Runs :
        /\ AfterAttempt(r) /\ Len(invocations[r]) >= 2
        /\ pc[r] = "schedule_check_in"
        /\ event[r].check_in_times.next = invocations[r][2].next

(* The state {identity, pending: Q}: the input with the list Q as          *)
(* check_in_times['remaining'] and no check_in_times['next'].              *)
WithPending(input, Q) ==
    [input EXCEPT !.check_in_times =
        [present |-> TRUE, has_remaining |-> TRUE, remaining |-> Q,
         has_next |-> FALSE, next |-> NoNext]]

LookupCalls(r) ==
    SelectSeq(gateway[r], LAMBDA c : c.op = "get_reservation")

(* C11: a first call of schedule_check_in whose lookup succeeds with the   *)
(* planned list Q leaves the event, and raises, exactly as a call on the   *)
(* input carrying Q as its remaining list: one lookup, then one pop.       *)
C11_FirstCallIsPlanThenPop ==
    \A r \in Runs :
        (advance[r].ran /\ advance[r].first /\ advance[r].lookup = "ok") =>
            LET c == schedule_check_in(
                         WithPending(inbound[r].input, planned[r]), NoLookup)
            IN  /\ event[r] = c.event
                /\ advance[r].raised = c.raised
                /\ popped[r] = c.pops
                /\ Len(LookupCalls(r)) = 1

C11_Witness ==
    \E r \in Runs :
        /\ advance[r].ran /\ advance[r].first /\ advance[r].lookup = "ok"
        /\ N(r) >= 2 /\ pc[r] = "check_in"
        /\ event[r].check_in_times.next = planned[r][N(r)]

(* C12: a run looks its reservation up once, as the first call it makes to *)
(* the gateway, in its first schedule_check_in; a continuing call makes no *)
(* lookup and leaves the remaining list the planned list less the          *)
(* elements popped.                                                        *)
C12_PlannedOnce ==
    \A r \in Runs :
        /\ Len(LookupCalls(r)) = (IF advance[r].ran THEN 1 ELSE 0)
        /\ advance[r].ran => gateway[r][1].op = "get_reservation"
        /\ (advance[r].ran /\ ~advance[r].first) =>
              /\ advance[r].lookup = "none"
              /\ Planned(r)
              /\ Len(popped[r]) >= 2
              /\ event[r].check_in_times.remaining
                    = SubSeq(planned[r], 1, N(r) - Len(popped[r]))

C12_Witness ==
    \E r \in Runs :
        /\ advance[r].ran /\ ~advance[r].first
        /\ Len(popped[r]) = 3 /\ Len(LookupCalls(r)) = 1

(* C13: when the lookup of the first schedule_check_in fails, the call     *)
(* raises the lookup's failure, which is not the continuation signal; the  *)
(* run makes no pop, no check-in and raises no continuation.               *)
C13_LookupFailurePropagates ==
    \A r \in Runs :
        advance[r].lookup = "failed" =>
            /\ advance[r].raised = LookupError
            /\ advance[r].raised # NotLastCheckIn
            /\ pc[r] = "failed"
            /\ popped[r] = <<>>
            /\ ~event[r].check_in_times.has_next
            /\ invocations[r] = <<>>
            /\ gateway[r] = <<GatewayCall("get_reservation", event[r])>>

C13_Witness ==
    \E r \in Runs :
        /\ advance[r].ran /\ advance[r].lookup = "failed"
        /\ advance[r].raised = LookupError /\ pc[r] = "failed"

(* C14: when the scraping of the inbound message fails, receive_email      *)
(* returns None, raises nothing and starts no execution: the run stays     *)
(* unstarted.                                                              *)
C14_ExtractionFailureSwallowed ==
    \A r \in Runs :
        (inbound[r].handled /\ ~inbound[r].found) =>
            /\ inbound[r].raised = NoException
            /\ inbound[r].returned = "None"
            /\ ~inbound[r].started
            /\ pc[r] = "idle"
            /\ event[r] = StartInput("", NoEmail)
            /\ gateway[r] = <<>>

C14_Witness ==
    \E r \in Runs :
        /\ inbound[r].handled /\ ~inbound[r].found
        /\ inbound[r].returned = "None" /\ pc[r] = "idle"

(* The domain of an address: the pieces after the "@". *)
Domain(source) ==
    LET t == Tokens(source)
        at == CHOOSE i \in 1..Len(t) : t[i] = "@"
    IN  SubSeq(t, at + 1, Len(t))

(* The address is in the airline's domain, southwest.com, or under it. *)
InAirlineDomain(source) ==
    \/ Domain(source) = <<"southwest", ".", "com">>
    \/ EndsWith(Domain(source), <<".", "southwest", ".", "com">>)

(* C15: the input of a run started by receive_email has no email when the  *)
(* source of the message is in the domain southwest.com, and has the       *)
(* source as its email when the source is in any other domain.             *)
C15_EmailUnlessAirlineDomain ==
    \A r \in Runs :
        inbound[r].started =>
            /\ InAirlineDomain(inbound[r].source)
                  => inbound[r].input.email = NoEmail
            /\ ~InAirlineDomain(inbound[r].source)
                  => inbound[r].input.email = inbound[r].source

CheckInCallsOf(r) ==
    SelectSeq(gateway[r], LAMBDA c : c.op = "check_in")

(* C16: every check_in invocation makes one call of swa.check_in, with the *)
(* identity of the event and whatever check_in_times['next'] is; the       *)
(* calls made are as many as the invocations, and never more than the      *)
(* planned check-in times.                                                 *)
C16_OneCheckInCallPerInvocation ==
    \A r \in Runs :
        /\ Len(CheckInCallsOf(r)) = Len(invocations[r])
        /\ Len(CheckInCallsOf(r)) <= N(r)
        /\ \A k \in 1..Len(CheckInCallsOf(r)) :
              CheckInCallsOf(r)[k] =
                  [op |-> "check_in",
                   first_name |-> inbound[r].input.first_name,
                   last_name |-> inbound[r].input.last_name,
                   confirmation_number |->
                       inbound[r].input.confirmation_number]
        /\ \A t \in Times :
              CheckInCalls([event[r] EXCEPT !.check_in_times.next = t])
                  = CheckInCalls(event[r])

C16_Witness ==
    \E r \in Runs :
        /\ Len(CheckInCallsOf(r)) = 3 /\ Len(invocations[r]) = 3
        /\ invocations[r][3].check_in = "failed"

(* All that the model holds of run r. *)
RunState(r) ==
    <<event[r], pc[r], planned[r], popped[r], invocations[r], last[r],
      advance[r], gateway[r], inbound[r]>>

(* The events a handler invocation can make of the event ev. *)
EventsAfter(ev) ==
    {schedule_check_in(ev, lookup).event : lookup \in Lookups}
        \cup {check_in(ev, c, m).event : c \in BOOLEAN, m \in BOOLEAN}
        \cup {receive_email(source, TRUE, ev.confirmation_number).input :
                 source \in Sources}

(* C17: an invocation of one run changes nothing of another run, and the   *)
(* event it leaves is made from the event of its own run alone; so each    *)
(* run pops its own planned list, last element first, and calls the        *)
(* gateway for its own reservation, whatever the other runs do.            *)
C17_RunsIsolated ==
    /\ [][\A r \in Runs :
             RunState(r)' # RunState(r) =>
                 /\ \A q \in Runs \ {r} : RunState(q)' = RunState(q)
                 /\ event'[r] = event[r]
                       \/ event'[r] \in EventsAfter(event[r])
                       \/ /\ pc[r] = "idle"
                          /\ event'[r] \in EventsAfter(
                                StartInput(ConfirmationNumber(r), NoEmail))
         ]_vars
    /\ [](\A r \in Runs :
             /\ \A k \in 1..Len(popped[r]) :
                   /\ k <= N(r)
                   /\ popped[r][k].time = planned[r][N(r) + 1 - k]
             /\ Planned(r) =>
                   event[r].check_in_times.remaining
                       = SubSeq(planned[r], 1, N(r) - Len(popped[r]))
             /\ \A k \in 1..Len(gateway[r]) :
                   gateway[r][k].confirmation_number = ConfirmationNumber(r))

(* Both runs are under way, on different planned lists. *)
C17_Witness ==
    /\ \A r \in Runs : Len(popped[r]) >= 1 /\ Len(invocations[r]) >= 1
    /\ planned["run1"] = <<3, 2>> /\ planned["run2"] = <<2, 1>>
    /\ pc["run1"] = "schedule_check_in" /\ pc["run2"] = "check_in"
    /\ event["run2"].check_in_times.next = 2

(* C18: when the lookup of the first schedule_check_in fails, the event    *)
(* passed in is left with no check_in_times, so that a further             *)
(* schedule_check_in on it is a first call again: it looks the             *)
(* reservation up and plans.                                               *)
C18_FailedLookupLeavesEventBare ==
    \A r \in Runs :
        advance[r].lookup = "failed" =>
            /\ ~event[r].check_in_times.present
            /\ event[r] = inbound[r].input
            /\ \A lookup \in Lookups :
                  /\ schedule_check_in(event[r], lookup).raised # KeyError
                  /\ schedule_check_in(event[r], lookup).calls
                        = <<GatewayCall("get_reservation", event[r])>>

(* C19: in every state of a started run the first_name, last_name,         *)
(* confirmation_number and email of the event are those of the input of    *)
(* the run, and check_in leaves the whole event as it found it, whether    *)
(* the check-in or the e-mail fails or not.                                *)
C19_IdentityUnchanged ==
    \A r \in Runs :
        /\ inbound[r].started =>
              /\ event[r].first_name = inbound[r].input.first_name
              /\ event[r].last_name = inbound[r].input.last_name
              /\ event[r].confirmation_number
                    = inbound[r].input.confirmation_number
              /\ event[r].email = inbound[r].input.email
        /\ last[r].ran =>
              /\ last[r].after = last[r].before
              /\ last[r].after.email = inbound[r].input.email

C19_Witness ==
    \E r \in Runs :
        /\ inbound[r].started /\ inbound[r].input.email # NoEmail
        /\ Len(invocations[r]) >= 2 /\ last[r].mail = "ok"
        /\ invocations[r][1].raised = NotLastCheckIn
        /\ last[r].check_in = "ok" /\ pc[r] = "done"

(* C20: a run whose lookup succeeded with one check-in time or more, and   *)
(* whose check-ins all succeed, is eventually complete: its remaining list *)
(* is empty and its last check_in returned without NotLastCheckIn.         *)
C20_EventuallyComplete ==
    \A r \in Runs :
        (Planned(r) /\ N(r) >= 1) ~>
            \/ ~AllCheckInsOk(r)
            \/ /\ pc[r] = "done"
               /\ event[r].check_in_times.remaining = <<>>
               /\ Len(invocations[r]) = N(r)
               /\ invocations[r][N(r)].raised = NoException

C20_Witness ==
    \A r \in Runs :
        /\ pc[r] = "done" /\ AllCheckInsOk(r)
        /\ N(r) >= 1 /\ event[r].check_in_times.remaining = <<>>

====
